---------------------------- MODULE Spec2Model ----------------------------
(***************************************************************************)
(* A model of kshell_utilities/collect_logs.py: the aggregation of KSHELL  *)
(* energy logs and transition logs into one summary file.                  *)
(*                                                                         *)
(* Conventions of the model                                                *)
(*  - Energies are integers in units of 1e-6 MeV, so the collision nudge   *)
(*    "energy += 0.000001" is "+ 1" and the snap "abs(E) < 1e-3" is        *)
(*    "abs(E) < 1000".  Floating point rounding is not modelled.           *)
(*  - A file name is its sequence of "_"-separated tokens, the last one    *)
(*    carrying the extension: log_Ne20_usda_m0p.txt is                     *)
(*    <<"log", "Ne20", "usda", "m0p.txt">>.                                *)
(*  - A log file is a sequence of lines; a line is a record that keeps     *)
(*    what the parsers look at (length, prefix, fields).                   *)
(*  - One run of collect_logs is followed from the call to its end: pc is  *)
(*    the position in collect_logs, err the exception it ended with.       *)
(***************************************************************************)
EXTENDS Integers, Sequences, FiniteSets, TLC

VARIABLES
    run,                 \* the number of calls of collect_logs in this process
    \* the call's arguments and the environment
    path,                \* argument of collect_logs: the directory listed
    old_or_new,          \* argument of collect_logs
    listing,             \* what os.listdir(path) returns, in its order
    content,             \* what open(name) finds: file name -> lines of the file
    cwd,                 \* summary files of the working directory: name -> content
    cwd0,                \* the working directory as it was when the call began
    \* process-wide globals of the module
    n_jnp,               \* (spin, parity, n_eig) -> global index
    E_gs,                \* ground state energy
    \* locals of collect_logs
    pc, err,
    energy_log_files, transit_log_files, isotopes,
    E_data, energies,
    ei,                  \* position of the loop over energy_log_files
    counter,             \* suffix of summary_filename
    mt, fi,              \* positions of the loops over multipole_types and transit_log_files
    output_e, mass,
    warned,              \* the RuntimeWarning of line 551 was issued
    io                   \* the file system calls of this call so far, in order

vars == <<run, path, old_or_new, listing, content, cwd, cwd0, n_jnp, E_gs, pc, err,
          energy_log_files, transit_log_files, isotopes, E_data, energies,
          ei, counter, mt, fi, output_e, mass, warned, io>>

-----------------------------------------------------------------------------
(* Bounds of the model *)

MaxRecords == 2
MaxRows == 2
MaxExisting == 2
MaxRuns == 2
MaxSpin == 5

-----------------------------------------------------------------------------
(* Small helpers *)

Abs(x) == IF x < 0 THEN -x ELSE x

Range(s) == {s[i] : i \in DOMAIN s}

Last(s) == s[Len(s)]

EmptyMap == <<>>

RECURSIVE SetToSortedSeq(_)
\* sorted(...) of a set of integers
SetToSortedSeq(S) ==
    IF S = {} THEN <<>>
    ELSE LET m == CHOOSE x \in S : \A y \in S : x <= y
         IN <<m>> \o SetToSortedSeq(S \ {m})

RECURSIVE SelectSeq2(_, _)
\* [i for i in s if Test(i)] with Test given as a set of accepted elements
SelectSeq2(s, ok) ==
    IF s = <<>> THEN <<>>
    ELSE (IF Head(s) \in ok THEN <<Head(s)>> ELSE <<>>) \o SelectSeq2(Tail(s), ok)

-----------------------------------------------------------------------------
(* Strings and file names *)

\* str.lower() on the strings of the model
LowerTable ==
    [s \in {"NEW", "New", "OLD", "Ne20", "O16", "LOG"} |->
        CASE s = "NEW" -> "new"
          [] s = "New" -> "new"
          [] s = "OLD" -> "old"
          [] s = "Ne20" -> "ne20"
          [] s = "O16" -> "o16"
          [] s = "LOG" -> "log"]

Lower(s) == IF s \in DOMAIN LowerTable THEN LowerTable[s] ELSE s

\* the tokens that end with ".txt"
TxtTokens == {"m0p.txt", "m0n.txt", "m0p2.txt", "e2m1.txt", "e1.txt", "000.txt", "001.txt"}

\* pairs <<a, b>> of lower-case tokens with a a proper substring of b
ProperSubstrings == {<<"o16", "o16sd">>}

\* elem.startswith("log_")
StartsWithLog(elem) == Len(elem) >= 2 /\ elem[1] = "log"

\* elem.endswith(".txt")
EndsWithTxt(elem) == Len(elem) >= 1 /\ Last(elem) \in TxtTokens

\* "_tr_" in elem
HasTr(elem) == \E i \in 2..(Len(elem) - 1) : elem[i] = "tr"

\* choice in i.lower(), for a choice without "_"
ChoiceIn(c, elem) ==
    \E i \in 1..Len(elem) : Lower(elem[i]) = c \/ <<c, Lower(elem[i])>> \in ProperSubstrings

\* parity_integer_to_string
parity_integer_to_string(i) == IF i = 1 THEN "+" ELSE "-"

-----------------------------------------------------------------------------
(* Energy logs: read_energy_logfile *)

\* A line of an energy log.  k is what the line starts with or holds at the
\* columns the parser looks at:
\*   "conv"  line[:11] = "H converged"       "bn"  line[:14] = "H bn converged"
\*   "H"     line[6:10] = "<H>:"             "T"   line[42:45] = " T:"
\*   "text"  none of these
\* len is len(line), the newline included.
ELine(k, len, n, e, s, p, t) ==
    [k |-> k, len |-> len, n_eig |-> n, energy |-> e, spin |-> s, parity |-> p, tt |-> t]

\* lines 89-90: the line is skipped while the marker is sought
NotMarker(line) ==
    \/ line.len >= 11 /\ line.k # "conv"
    \/ line.len >= 14 /\ line.k # "bn"

NudgeNone(energy, E) == energy

RECURSIVE Nudge(_, _)
\* line 112: while energy in E_data: energy += 0.000001
Nudge(energy, E) ==
    IF energy \in DOMAIN E THEN Nudge(energy + 1, E) ELSE energy

\* line 117: E_data[energy] = (filename, spin, parity, n_eig, tt)
Store(E, energy, rec) == (energy :> rec) @@ E

RECURSIVE EnergyScan(_, _, _, _, _, _)
\* The loops of lines 86-118 from line i on.  phase is the loop the reader
\* is in: "marker" (86-90), "block" (91-94), "isospin" (113-118); pend is
\* the record read from the "<H>:" line that waits for its " T:" line.
\* The result is the table and whether the reader loops forever at end of
\* file (line 115 at end of file: '' is not ' T:', so it continues).
EnergyScan(filename, lines, i, phase, pend, E) ==
    IF i > Len(lines)
    THEN [E |-> E, hang |-> (phase = "isospin")]
    ELSE LET line == lines[i] IN
         CASE phase = "marker" ->
                 IF NotMarker(line)
                 THEN EnergyScan(filename, lines, i + 1, "marker", pend, E)
                 ELSE EnergyScan(filename, lines, i + 1, "block", pend, E)
           [] phase = "block" ->
                 IF line.k = "H"
                 THEN EnergyScan(filename, lines, i + 1, "isospin",
                                 [energy |-> Nudge(line.energy, E),
                                  spin |-> line.spin,
                                  parity |-> parity_integer_to_string(line.parity),
                                  n_eig |-> line.n_eig], E)
                 ELSE EnergyScan(filename, lines, i + 1, "block", pend, E)
           [] OTHER ->
                 IF line.k # "T"
                 THEN EnergyScan(filename, lines, i + 1, "isospin", pend, E)
                 ELSE EnergyScan(filename, lines, i + 1, "block", pend,
                                 Store(E, pend.energy,
                                       [filename |-> filename, spin |-> pend.spin,
                                        parity |-> pend.parity, n_eig |-> pend.n_eig,
                                        tt |-> line.tt]))

NoPend == [energy |-> 0, spin |-> 0, parity |-> "+", n_eig |-> 0]

read_energy_logfile(filename, lines, E) ==
    EnergyScan(filename, lines, 1, "marker", NoPend, E)

-----------------------------------------------------------------------------
(* Index assignment: lines 565-586 of collect_logs *)

OccurReset(occ, sp) == (sp :> 1) @@ occ

\* spin_parity_occurrences[spin_parity] += 1, or = 1 at the first occurrence
Occur(occ, sp) ==
    IF sp \in DOMAIN occ THEN [occ EXCEPT ![sp] = @ + 1] ELSE (sp :> 1) @@ occ

RECURSIVE AssignLoop(_, _, _, _, _)
\* The loop of lines 566-583 from position i of the sorted energies on.
AssignLoop(es, i, occ, njnp, E) ==
    IF i > Len(es) THEN [n_jnp |-> njnp, E_data |-> E, occ |-> occ]
    ELSE LET energy == es[i]
             rec == E[energy]
             sp == <<rec.spin, rec.parity>>
             occ2 == Occur(occ, sp)
         IN AssignLoop(es, i + 1, occ2,
                       (<<rec.spin, rec.parity, rec.n_eig>> :> occ2[sp]) @@ njnp,
                       [E EXCEPT ![energy] = [rec EXCEPT !.n_eig = occ2[sp]]])

-----------------------------------------------------------------------------
(* Unit converter and formatter *)

multipole_types_electric == <<"E1", "E2">>

multipole_types == <<"E1", "M1", "E2">>

\* weisskopf_threshold, in units of 1e-3 W.u.
weisskopf_threshold == -1

\* weisskopf_unit(multipole_type, mass)[0], in units of 1e-3, for the masses
\* of the model (20 and 50); 0 for mass 0 except for M1, which does not
\* depend on the mass.
weisskopf_unit(multipole_type, m) ==
    CASE multipole_type = "E1" -> (IF m = 20 THEN 475 ELSE IF m = 50 THEN 875 ELSE 0)
      [] multipole_type = "M1" -> 1790
      [] OTHER -> (IF m = 20 THEN 3225 ELSE IF m = 50 THEN 10941 ELSE 0)

\* weisskopf_unit(multipole_type, mass)[1]
unit_weisskopf_of(multipole_type) ==
    CASE multipole_type = "E1" -> "e^2 fm^2"
      [] multipole_type = "M1" -> "mu_N^2  "
      [] OTHER -> "e^2 fm^4"

BelowThresholdNever(B, Bw) == FALSE

\* B/B_weisskopf < weisskopf_threshold, B in units of 1e-3 and B_weisskopf > 0
BelowThreshold(B, Bw) == B * 1000 < weisskopf_threshold * Bw

spin_to_string_doubled(spin) == [num |-> spin, den |-> 1]

\* spin_to_string: the value printed, as numerator and denominator
spin_to_string(spin) ==
    IF spin < 0 THEN [num |-> spin, den |-> 1]
    ELSE IF spin % 2 = 0 THEN [num |-> spin \div 2, den |-> 1]
    ELSE [num |-> spin, den |-> 2]

\* f"{x:9.3f}" of an energy: the nearest multiple of 1e-3 MeV, in units of
\* 1e-3 MeV (ties to even)
Fmt3(x) ==
    LET q == x \div 1000
        r == x % 1000
    IN IF r < 500 THEN q
       ELSE IF r > 500 THEN q + 1
       ELSE IF q % 2 = 0 THEN q ELSE q + 1

-----------------------------------------------------------------------------
(* Transition logs: read_transit_logfile and read_transit_logfile_old *)

\* A line of a transition log.  k is
\*   "blank"     line.split() is empty
\*   "mass"      the line holds "mass=" (mass)
\*   "wave_l"    line_split[0] = "fn_load_wave_l" (wf = line_split[2])
\*   "wave_r"    line_split[0] = "fn_load_wave_r" (wf = line_split[2])
\*   "announce"  the line holds "<type> transition" and ends with the two
\*               parity integers (pf, pi)
\*   "row"       a table row in one of the two layouts
\*   "pn"        the line starts with "pn="
\*   "text"      any other line (the table header among them)
TLine(k, m, wf, type, pf, pi, layout, sf, i1, Ef, si, i2, Ei, dE, Bd, Be) ==
    [k |-> k, mass |-> m, wf |-> wf, type |-> type, pf |-> pf, pi |-> pi,
     layout |-> layout, spin_final |-> sf, idx_1 |-> i1, E_final |-> Ef,
     spin_initial |-> si, idx_2 |-> i2, E_initial |-> Ei, dE |-> dE,
     B_decay |-> Bd, B_excite |-> Be]

KeyBase == 100000000

\* The sort key, a real number in the code, as <<hi, lo>> with
\* key = hi * 1e-6 + lo * 1e-14 and 0 <= lo < 1e8, so that the order of
\* the pairs is the order of the numbers.
\* line 466: E_initial + E_final*1e-5 + spin_initial*1e-10 + idx_2*1e-11
\*           + spin_final*1e-13 + idx_1*1e-14
KeyUp(E_initial, E_final, spin_initial, idx_2, spin_final, idx_1) ==
    LET L == E_final * 1000 + spin_initial * 10000 + idx_2 * 1000
             + spin_final * 10 + idx_1
    IN <<E_initial + (L \div KeyBase), L % KeyBase>>

\* line 489: E_final + E_initial*1e-5 + spin_final*1e-10 + idx_1*1e-11
\*           + spin_initial*1e-12 + idx_2*1e-14
KeyDown(E_initial, E_final, spin_initial, idx_2, spin_final, idx_1) ==
    LET L == E_initial * 1000 + spin_final * 10000 + idx_1 * 1000
             + spin_initial * 100 + idx_2
    IN <<E_final + (L \div KeyBase), L % KeyBase>>

\* lines 446-447: if abs(E) < 1e-3: E = 0.
Snap(E) == IF Abs(E) < 1000 THEN 0 ELSE E

\* line 442 (271): the self-transition filter
SelfFilterOff(line) == FALSE

SelfFilter(line) == line.spin_final = line.spin_initial /\ line.idx_1 = line.idx_2

DiagFilterAlways(line, is_diag) == line.dE < 0

\* line 443 (272): if is_diag and (dE < 0.0): continue
DiagFilter(line, is_diag) == is_diag /\ line.dE < 0

FilteredSelfOnly(line, is_diag, Bw) == SelfFilter(line)

\* lines 442-445 (271-274): the row is skipped
Filtered(line, is_diag, Bw) ==
    \/ SelfFilter(line)
    \/ DiagFilter(line, is_diag)
    \/ BelowThreshold(line.B_decay, Bw)
    \/ BelowThreshold(line.B_excite, Bw)

FormatRowAsRead(line, c, idx1, idx2) ==
    LET E_final == Snap(line.E_final - c.E_gs)
        E_initial == Snap(line.E_initial - c.E_gs)
    IN [key |-> KeyUp(E_initial, E_final, line.spin_initial, idx2,
                      line.spin_final, idx1),
        out |-> [first |-> [J |-> spin_to_string(line.spin_initial),
                            prty |-> c.parity_initial, idx |-> idx2,
                            Ex |-> Fmt3(E_initial)],
                 second |-> [J |-> spin_to_string(line.spin_final),
                             prty |-> c.parity_final, idx |-> idx1,
                             Ex |-> Fmt3(E_final)],
                 dE |-> Fmt3(line.dE),
                 B1 |-> [B |-> line.B_excite, wu |-> <<line.B_excite, c.B_weisskopf>>],
                 B2 |-> [B |-> line.B_decay, wu |-> <<line.B_decay, c.B_weisskopf>>]]]

\* lines 452-489 (281-314): the formatted row, as the columns printed, and
\* its key.  idx1 and idx2 are the global indices of lines 449-450.
FormatRow(line, c, idx1, idx2) ==
    LET E_final == Snap(line.E_final - c.E_gs)
        E_initial == Snap(line.E_initial - c.E_gs)
        ini == [J |-> spin_to_string(line.spin_initial), prty |-> c.parity_initial,
                idx |-> idx2, Ex |-> Fmt3(E_initial)]
        fin == [J |-> spin_to_string(line.spin_final), prty |-> c.parity_final,
                idx |-> idx1, Ex |-> Fmt3(E_final)]
        exc == [B |-> line.B_excite, wu |-> <<line.B_excite, c.B_weisskopf>>]
        dec == [B |-> line.B_decay, wu |-> <<line.B_decay, c.B_weisskopf>>]
    IN IF line.dE > 0
       THEN [key |-> KeyUp(E_initial, E_final, line.spin_initial, idx2,
                           line.spin_final, idx1),
             out |-> [first |-> ini, second |-> fin, dE |-> Fmt3(line.dE),
                      B1 |-> exc, B2 |-> dec]]
       ELSE [key |-> KeyDown(E_initial, E_final, line.spin_initial, idx2,
                             line.spin_final, idx1),
             out |-> [first |-> fin, second |-> ini, dE |-> Fmt3(-line.dE),
                      B1 |-> dec, B2 |-> exc]]

EndsTableOrPn(line) == line.k = "blank" \/ line.k = "pn"

\* line 415 (246): if not line_split: break
EndsTable(line) == line.k = "blank"

\* line 416 (247): if line.startswith("pn="): continue
SkippedInTable(line) == line.k = "pn"

RECURSIVE TableScan(_, _, _, _)
\* The table loop of lines 392-490 (223-315) from line i on; c holds the
\* names bound by the header phase, the variant and the two globals.
\* The result is out_e and the exception raised, "" for none.
TableScan(lines, i, c, out_e) ==
    IF i > Len(lines) THEN [err |-> "", out_e |-> out_e]
    ELSE LET line == lines[i] IN
         CASE EndsTable(line) -> [err |-> "", out_e |-> out_e]
           [] SkippedInTable(line) -> TableScan(lines, i + 1, c, out_e)
           [] line.k # "row" \/ line.layout # c.variant ->
                 \* int() or float() of a field that is no number
                 [err |-> "ValueError", out_e |-> out_e]
           [] ~c.B_bound -> [err |-> "NameError", out_e |-> out_e]
           [] Filtered(line, c.is_diag, c.B_weisskopf) ->
                 TableScan(lines, i + 1, c, out_e)
           [] OTHER ->
                 LET k1 == <<line.spin_final, c.parity_final, line.idx_1>>
                     k2 == <<line.spin_initial, c.parity_initial, line.idx_2>>
                 IN IF k1 \notin DOMAIN c.n_jnp \/ k2 \notin DOMAIN c.n_jnp
                    THEN [err |-> "KeyError", out_e |-> out_e]
                    ELSE LET r == FormatRow(line, c, c.n_jnp[k1], c.n_jnp[k2])
                         IN TableScan(lines, i + 1, c, (r.key :> r.out) @@ out_e)

RECURSIVE HeaderScan(_, _, _, _, _, _)
\* The header loop of lines 340-389 (171-220) from line i on, then the
\* table.  h holds the locals bound so far: mass_save, whether B_weisskopf
\* and the two wave function names are bound, and their values.
\* The result is what the function returns (out_e, mass_save) or the
\* exception it raises.
HeaderScan(lines, i, h, multipole_type, variant, g) ==
    IF i > Len(lines)
    THEN \* no announcement: the table loop reads nothing; line 492 (317)
         [err |-> IF h.B_bound THEN "" ELSE "NameError",
          out_e |-> EmptyMap, mass |-> h.mass_save]
    ELSE LET line == lines[i] IN
         CASE line.k = "blank" -> HeaderScan(lines, i + 1, h, multipole_type, variant, g)
           [] line.k = "mass" ->
                 LET ms == IF h.mass_save = 0 THEN line.mass ELSE h.mass_save IN
                 IF ms # line.mass
                 THEN [err |-> "RuntimeError", out_e |-> EmptyMap, mass |-> ms]
                 ELSE HeaderScan(lines, i + 1,
                                 [h EXCEPT !.mass_save = ms, !.B_bound = TRUE,
                                           !.B_weisskopf = weisskopf_unit(multipole_type, line.mass)],
                                 multipole_type, variant, g)
           [] line.k = "wave_l" ->
                 HeaderScan(lines, i + 1, [h EXCEPT !.l_bound = TRUE, !.left = line.wf],
                            multipole_type, variant, g)
           [] line.k = "wave_r" ->
                 HeaderScan(lines, i + 1, [h EXCEPT !.r_bound = TRUE, !.right = line.wf],
                            multipole_type, variant, g)
           [] line.k = "announce" /\ line.type = multipole_type ->
                 IF ~h.l_bound \/ ~h.r_bound
                 THEN [err |-> "NameError", out_e |-> EmptyMap, mass |-> h.mass_save]
                 ELSE LET c == [variant |-> variant,
                                parity_final |-> parity_integer_to_string(line.pf),
                                parity_initial |-> parity_integer_to_string(line.pi),
                                is_diag |-> (h.left = h.right),
                                B_bound |-> h.B_bound, B_weisskopf |-> h.B_weisskopf,
                                E_gs |-> g.E_gs, n_jnp |-> g.n_jnp]
                          \* line 391 (222): one line is skipped
                          t == TableScan(lines, i + 2, c, EmptyMap)
                      IN IF t.err # "" THEN [err |-> t.err, out_e |-> t.out_e, mass |-> h.mass_save]
                         ELSE [err |-> IF h.B_bound THEN "" ELSE "NameError",
                               out_e |-> t.out_e, mass |-> h.mass_save]
           [] OTHER -> HeaderScan(lines, i + 1, h, multipole_type, variant, g)

NoHeader == [mass_save |-> 0, B_bound |-> FALSE, B_weisskopf |-> 0,
             l_bound |-> FALSE, left |-> "", r_bound |-> FALSE, right |-> ""]

\* g: the globals read, [E_gs, n_jnp]
read_transit_logfile(lines, multipole_type, g) ==
    HeaderScan(lines, 1, NoHeader, multipole_type, "new", g)

read_transit_logfile_old(lines, multipole_type, g) ==
    HeaderScan(lines, 1, NoHeader, multipole_type, "old", g)

-----------------------------------------------------------------------------
(* collect_logs *)

allowed_old_or_new == {"new", "old"}

\* lines 524-531: the log files of the listing, in its order
IsLog(elem) == StartsWithLog(elem) /\ EndsWithTxt(elem)

RECURSIVE IsotopesOf(_, _)
\* lines 526-527: the lower-case isotope tokens, in order of first occurrence
IsotopesOf(l, acc) ==
    IF l = <<>> THEN acc
    ELSE LET tmp == Lower(Head(l)[2])
         IN IsotopesOf(Tail(l),
                       IF IsLog(Head(l)) /\ tmp \notin Range(acc)
                       THEN Append(acc, tmp) ELSE acc)

EnergyLogsOf(l) == SelectSeq2(l, {f \in Range(l) : IsLog(f) /\ ~HasTr(f)})

TransitLogsOf(l) == SelectSeq2(l, {f \in Range(l) : IsLog(f) /\ HasTr(f)})

\* f"summary_{isotope}_{model_space}_{counter:03d}.txt"
SummaryName(first, c) == <<"summary", first[2], first[3], c>>

FreeCounterFirst(first, c, files) == c

RECURSIVE FreeCounter(_, _, _)
\* lines 591-600: the first counter from c on whose name is no file
FreeCounter(first, c, files) ==
    IF SummaryName(first, c) \in files THEN FreeCounter(first, c + 1, files) ELSE c

\* the directory in which a relative file name is looked up by open()
WorkingDir == "."

\* a file system call: the directory it works in and the name it is given
Event(op, dir, file) == [op |-> op, dir |-> dir, file |-> file]

\* one row of the levels block, lines 606-614, as the columns printed
LevelRow(i, energy, rec, egs) ==
    [N |-> i, J |-> spin_to_string(rec.spin), prty |-> rec.parity,
     N_Jp |-> rec.n_eig, T |-> spin_to_string(rec.tt), E |-> Fmt3(energy),
     Ex |-> Fmt3(energy - egs), file |-> rec.filename]

RECURSIVE SortKeys(_)
\* sorted(output_e.items()): the keys in ascending order
SortKeys(S) ==
    IF S = {} THEN <<>>
    ELSE LET m == CHOOSE x \in S : \A y \in S :
                      x[1] < y[1] \/ (x[1] = y[1] /\ x[2] <= y[2])
         IN <<m>> \o SortKeys(S \ {m})

Raise(e) == pc' = "error" /\ err' = e

\* The order of the statements of collect_logs, lines 516-636: the check of
\* the argument (516-519), the listing (521-543), the checks of the lists
\* (545-555), the energy logs (557-558), the indices and E_gs (560-586), the
\* name of the summary (588-600), its levels block (602-616), the
\* multipole blocks (618-636).
StagesListFirst ==
    <<"discover", "validate", "check", "read_energy", "assign", "name", "levels", "transit">>

StagesOpenFirst ==
    <<"validate", "discover", "check", "read_energy", "name", "levels", "assign", "transit">>

StagesTransitFirst ==
    <<"validate", "discover", "check", "read_energy", "name", "levels", "transit", "assign">>

Stages ==
    <<"validate", "discover", "check", "read_energy", "assign", "name", "levels", "transit">>

NextStage(s) ==
    LET i == CHOOSE j \in 1..Len(Stages) : Stages[j] = s
    IN IF i = Len(Stages) THEN "done" ELSE Stages[i + 1]

\* line 549
NoTransitLogs(tl) == Len(tl) = 0

\* line 618
HasTransitLogsAlways(tl) == TRUE

HasTransitLogs(tl) == Len(tl) > 0

GroundStateLast(es) == es[Len(es)]

\* line 586: energies[0]
GroundState(es) == es[1]

\* lines 516-519
Validate ==
    /\ pc = "validate"
    /\ IF Lower(old_or_new) \notin allowed_old_or_new
       THEN Raise("ValueError")
       ELSE pc' = NextStage("validate") /\ err' = err
    /\ UNCHANGED <<run, path, old_or_new, listing, content, cwd, cwd0, n_jnp, E_gs,
                   energy_log_files, transit_log_files, isotopes, E_data, energies,
                   ei, counter, mt, fi, output_e, mass, warned, io>>

\* lines 521-531
Discover ==
    /\ pc = "discover"
    /\ io' = Append(io, Event("listdir", path, <<>>))
    /\ isotopes' = IsotopesOf(listing, <<>>)
    /\ energy_log_files' = EnergyLogsOf(listing)
    /\ transit_log_files' = TransitLogsOf(listing)
    /\ pc' = IF Len(isotopes') > 1 THEN "choose" ELSE NextStage("discover")
    /\ UNCHANGED <<run, path, old_or_new, listing, content, cwd, cwd0, n_jnp, E_gs, err,
                   E_data, energies, ei, counter, mt, fi, output_e, mass, warned>>

\* lines 533-543: input() is repeated until it names one of the isotopes
Choose ==
    /\ pc = "choose"
    /\ \E choice \in Range(isotopes) :
          /\ energy_log_files' =
                 SelectSeq2(energy_log_files,
                            {f \in Range(energy_log_files) : ChoiceIn(choice, f)})
          /\ transit_log_files' =
                 SelectSeq2(transit_log_files,
                            {f \in Range(transit_log_files) : ChoiceIn(choice, f)})
    /\ pc' = NextStage("discover")
    /\ UNCHANGED <<run, path, old_or_new, listing, content, cwd, cwd0, n_jnp, E_gs, err,
                   isotopes, E_data, energies, ei, counter, mt, fi, output_e,
                   mass, warned, io>>

\* lines 545-555
CheckFiles ==
    /\ pc = "check"
    /\ IF Len(energy_log_files) = 0
       THEN Raise("FileNotFoundError") /\ UNCHANGED warned
       ELSE /\ warned' = NoTransitLogs(transit_log_files)
            /\ pc' = NextStage("check")
            /\ err' = err
    /\ UNCHANGED <<run, path, old_or_new, listing, content, cwd, cwd0, n_jnp, E_gs,
                   energy_log_files, transit_log_files, isotopes, E_data, energies,
                   ei, counter, mt, fi, output_e, mass, io>>

\* lines 557-558: one pass of the loop, one call of read_energy_logfile
ReadEnergy ==
    /\ pc = "read_energy"
    /\ ei <= Len(energy_log_files)
    /\ LET log_file == energy_log_files[ei]
       IN /\ io' = Append(io, Event("open", WorkingDir, log_file))
          /\ IF log_file \notin DOMAIN content
             THEN \* line 85: open() of a name that is no file
                  Raise("FileNotFoundError") /\ UNCHANGED <<E_data, ei>>
             ELSE LET r == read_energy_logfile(log_file, content[log_file], E_data)
                  IN /\ E_data' = r.E
                     /\ pc' = IF r.hang THEN "hang"
                              ELSE IF ei = Len(energy_log_files)
                                   THEN NextStage("read_energy")
                                   ELSE pc
                     /\ ei' = ei + 1
                     /\ err' = err
    /\ UNCHANGED <<run, path, old_or_new, listing, content, cwd, cwd0, n_jnp, E_gs,
                   energy_log_files, transit_log_files, isotopes, energies,
                   counter, mt, fi, output_e, mass, warned>>

\* lines 560-586
AssignIndices ==
    /\ pc = "assign"
    /\ IF DOMAIN E_data = {}
       THEN /\ Raise("RuntimeError")
            /\ UNCHANGED <<n_jnp, E_gs, E_data, energies>>
       ELSE LET es == SetToSortedSeq(DOMAIN E_data)
                r == AssignLoop(es, 1, EmptyMap, n_jnp, E_data)
            IN /\ energies' = es
               /\ n_jnp' = r.n_jnp
               /\ E_data' = r.E_data
               /\ E_gs' = GroundState(es)
               /\ pc' = NextStage("assign")
               /\ err' = err
    /\ UNCHANGED <<run, path, old_or_new, listing, content, cwd, cwd0,
                   energy_log_files, transit_log_files, isotopes,
                   ei, counter, mt, fi, output_e, mass, warned, io>>

\* lines 588-600
PickName ==
    /\ pc = "name"
    /\ IF Len(energy_log_files[1]) < 3
       THEN Raise("IndexError") /\ UNCHANGED counter
       ELSE /\ counter' = FreeCounter(energy_log_files[1], 0, DOMAIN cwd)
            /\ pc' = NextStage("name")
            /\ err' = err
    /\ UNCHANGED <<run, path, old_or_new, listing, content, cwd, cwd0, n_jnp, E_gs,
                   energy_log_files, transit_log_files, isotopes, E_data, energies,
                   ei, mt, fi, output_e, mass, warned, io>>

\* lines 602-618: the file is created and the levels block written
WriteLevels ==
    /\ pc = "levels"
    /\ LET name == SummaryName(energy_log_files[1], counter)
           rows == [i \in 1..Len(energies) |->
                       LevelRow(i, energies[i], E_data[energies[i]], E_gs)]
       IN /\ io' = Append(io, Event("write", WorkingDir, name))
          /\ cwd' = (name :> [old |-> FALSE, levels |-> rows, blocks |-> <<>>]) @@ cwd
    /\ pc' = NextStage("levels")
    /\ mt' = 1
    /\ fi' = 1
    /\ output_e' = EmptyMap
    /\ UNCHANGED <<run, path, old_or_new, listing, content, cwd0, n_jnp, E_gs, err,
                   energy_log_files, transit_log_files, isotopes, E_data, energies,
                   ei, counter, mass, warned>>

\* lines 622-627: one pass of the inner loop, one call of the parser
ReadTransit ==
    /\ pc = "transit"
    /\ HasTransitLogs(transit_log_files)
    /\ fi <= Len(transit_log_files)
    /\ LET filename == transit_log_files[fi]
           g == [E_gs |-> E_gs, n_jnp |-> n_jnp]
           r == IF filename \notin DOMAIN content
                THEN \* line 339 (170): open() of a name that is no file
                     [err |-> "FileNotFoundError", out_e |-> EmptyMap, mass |-> 0]
                ELSE IF Lower(old_or_new) = "new"
                THEN read_transit_logfile(content[filename], multipole_types[mt], g)
                ELSE read_transit_logfile_old(content[filename], multipole_types[mt], g)
       IN /\ io' = Append(io, Event("open", WorkingDir, filename))
          /\ IF r.err # ""
             THEN Raise(r.err) /\ UNCHANGED <<output_e, mass, fi>>
             ELSE /\ output_e' = r.out_e @@ output_e
                  /\ mass' = r.mass
                  /\ fi' = fi + 1
                  /\ UNCHANGED <<pc, err>>
    /\ UNCHANGED <<run, path, old_or_new, listing, content, cwd, cwd0, n_jnp, E_gs,
                   energy_log_files, transit_log_files, isotopes, E_data, energies,
                   ei, counter, mt, warned>>

\* lines 629-636: the block of one multipole type
WriteBlock ==
    /\ pc = "transit"
    /\ HasTransitLogs(transit_log_files)
    /\ fi > Len(transit_log_files)
    /\ LET name == SummaryName(energy_log_files[1], counter)
           keys == SortKeys(DOMAIN output_e)
           block == [type |-> multipole_types[mt],
                     threshold |-> weisskopf_threshold,
                     mass |-> mass,
                     B_weisskopf |-> weisskopf_unit(multipole_types[mt], mass),
                     unit |-> unit_weisskopf_of(multipole_types[mt]),
                     rows |-> [i \in 1..Len(keys) |-> output_e[keys[i]]]]
       IN cwd' = [cwd EXCEPT ![name].blocks = Append(@, block)]
    /\ IF mt = Len(multipole_types)
       THEN pc' = NextStage("transit") /\ UNCHANGED <<mt, fi, output_e>>
       ELSE /\ mt' = mt + 1
            /\ fi' = 1
            /\ output_e' = EmptyMap
            /\ pc' = pc
    /\ UNCHANGED <<run, path, old_or_new, listing, content, cwd0, n_jnp, E_gs, err,
                   energy_log_files, transit_log_files, isotopes, E_data, energies,
                   ei, counter, mass, warned, io>>

\* line 618 with no transition log: the summary is closed as it is
Close ==
    /\ pc = "transit"
    /\ ~HasTransitLogs(transit_log_files)
    /\ pc' = NextStage("transit")
    /\ UNCHANGED <<run, path, old_or_new, listing, content, cwd, cwd0, n_jnp, E_gs, err,
                   energy_log_files, transit_log_files, isotopes, E_data, energies,
                   ei, counter, mt, fi, output_e, mass, warned, io>>

-----------------------------------------------------------------------------
(* The inputs of a run: the directory listed, the logs' lines, the working  *)
(* directory and the argument                                               *)

SeqsUpTo(S, n) == UNION {[1..k -> S] : k \in 0..n}

RECURSIVE Flatten(_)
Flatten(ss) == IF ss = <<>> THEN <<>> ELSE Head(ss) \o Flatten(Tail(ss))

\* The log files follow the naming of KSHELL,
\* log_<isotope>_<model space>_<rest>.txt, so that lines 589-590 find the
\* two tokens of the summary's name.
FileE1 == <<"log", "Ne20", "usda", "m0p.txt">>
FileE2 == <<"log", "Ne20", "usda", "m0n.txt">>
FileE3 == <<"log", "O16", "usda", "m0p.txt">>
FileE4 == <<"log", "Ne20", "o16sd", "m0p.txt">>
FileT1 == <<"log", "Ne20", "usda", "tr", "e2m1.txt">>
FileT2 == <<"log", "Ne20", "usda", "tr", "e1.txt">>
FileT3 == <<"log", "O16", "usda", "tr", "e2m1.txt">>
FileX == <<"README">>

\* the lowest energy of the inputs: -0.005 MeV
EA == -5000

BlankLine == ELine("text", 1, 0, 0, 0, 0, 0)
ConvShort == ELine("conv", 12, 0, 0, 0, 0, 0)
ConvLong == ELine("conv", 40, 0, 0, 0, 0, 0)
BnLine == ELine("bn", 40, 0, 0, 0, 0, 0)
TextLine == ELine("text", 40, 0, 0, 0, 0, 0)
HLine(n, e, s, p) == ELine("H", 60, n, e, s, p, 0)
IsospinLine(t) == ELine("T", 50, 0, 0, 0, 0, t)

\* An energy log: a first line, then the eigenstates, numbered 1, 2, ... as
\* the solver numbers them, each an "<H>:" line and a " T:" line; lastT
\* says whether the last eigenstate has its " T:" line.
EnergyLog(pre, recs, lastT) ==
    <<pre>> \o Flatten([n \in 1..Len(recs) |->
                 <<HLine(n, recs[n].energy, recs[n].spin, recs[n].parity)>>
                 \o (IF n = Len(recs) /\ ~lastT THEN <<>>
                     ELSE <<IsospinLine(recs[n].tt)>>)])

Rec(e, s, p, t) == [energy |-> e, spin |-> s, parity |-> p, tt |-> t]

\* the summary files found in the working directory
Existing(cs) ==
    [n \in {SummaryName(FileE1, c) : c \in cs} |->
        [old |-> TRUE, levels |-> <<>>, blocks |-> <<>>]]

ExistingSets == {cs \in SUBSET (0..(MaxExisting - 1)) : TRUE}

\* the state of a call of collect_logs(p, mode) that has not begun, in a
\* fresh process
BeginAt(p, mode, l, c, w) ==
    /\ run = 1
    /\ path = p
    /\ old_or_new = mode
    /\ listing = l
    /\ content = c
    /\ cwd = w
    /\ cwd0 = w
    /\ n_jnp = EmptyMap
    /\ E_gs = 0
    /\ pc = Stages[1]
    /\ err = ""
    /\ energy_log_files = <<>>
    /\ transit_log_files = <<>>
    /\ isotopes = <<>>
    /\ E_data = EmptyMap
    /\ energies = <<>>
    /\ ei = 1
    /\ counter = 0
    /\ mt = 1
    /\ fi = 1
    /\ output_e = EmptyMap
    /\ mass = 0
    /\ warned = FALSE
    /\ io = <<>>

\* a call on the working directory itself
Begin(mode, l, c, w) == BeginAt(WorkingDir, mode, l, c, w)

\* Energy logs of every shape, no transition log
RecSetA == {Rec(e, s, 1, 0) : e \in {EA, EA + 1}, s \in {0, 4}}

LogsA == {EnergyLog(pre, recs, TRUE) :
             pre \in {ConvShort, ConvLong}, recs \in SeqsUpTo(RecSetA, MaxRecords)}

InitA ==
    \E l1 \in LogsA, l2 \in {l \in LogsA : l[1] = ConvShort} :
        Begin("new", <<FileE1, FileE2>>, (FileE1 :> l1) @@ (FileE2 :> l2), Existing({}))

\* One energy log whose last eigenstate may lack its isospin line, and the
\* first lines an energy log may have
RecSetH == {Rec(e, 4, p, t) : e \in {EA, EA + 3000}, p \in {1, -1}, t \in {0, 2}}

InitH ==
    \E pre \in {BlankLine, ConvShort, ConvLong, BnLine, TextLine},
       recs \in SeqsUpTo(RecSetH, MaxRecords), lastT \in BOOLEAN :
        Begin("new", <<FileE1>>, (FileE1 :> EnergyLog(pre, recs, lastT)), Existing({}))

\* The energy logs of the runs that read transition logs:
\*   m0p: 0+ at EA, 2+ at EA + 3000          m0n: 2- at EA + 4000
GoodE1 == EnergyLog(ConvShort, <<Rec(EA, 0, 1, 0), Rec(EA + 3000, 4, 1, 0)>>, TRUE)
GoodE2 == EnergyLog(ConvShort, <<Rec(EA + 4000, 4, -1, 0)>>, TRUE)

MassLine(m) == TLine("mass", m, "", "", 0, 0, "", 0, 0, 0, 0, 0, 0, 0, 0, 0)
WaveL(f) == TLine("wave_l", 0, f, "", 0, 0, "", 0, 0, 0, 0, 0, 0, 0, 0, 0)
WaveR(f) == TLine("wave_r", 0, f, "", 0, 0, "", 0, 0, 0, 0, 0, 0, 0, 0, 0)
Announce(type, pf, pi) == TLine("announce", 0, "", type, pf, pi, "", 0, 0, 0, 0, 0, 0, 0, 0, 0)
TText == TLine("text", 0, "", "", 0, 0, "", 0, 0, 0, 0, 0, 0, 0, 0, 0)
TBlank == TLine("blank", 0, "", "", 0, 0, "", 0, 0, 0, 0, 0, 0, 0, 0, 0)
PnLine == TLine("pn", 0, "", "", 0, 0, "", 0, 0, 0, 0, 0, 0, 0, 0, 0)

\* A table row between two states given as <<2J, idx, E>>; the gamma
\* energy is E_initial - E_final as the solver prints it.
Row(layout, f, i, Bd, Be) ==
    TLine("row", 0, "", "", 0, 0, layout, f[1], f[2], f[3], i[1], i[2], i[3],
          i[3] - f[3], Bd, Be)

\* A transition log: the header lines, then one table
TransitLog(masses, wl, wr, type, pf, pi, rows) ==
    [j \in 1..Len(masses) |-> MassLine(masses[j])]
    \o <<WaveL(wl), WaveR(wr), TBlank, Announce(type, pf, pi), TText>>
    \o rows \o <<TBlank, TText>>

\* the states a row may name: three of the energy logs, one of no log
FinalStates == {<<0, 1, EA>>, <<4, 2, EA + 3000>>}
InitialStates == {<<4, 2, EA + 3000>>, <<4, 1, EA + 4000>>, <<4, 3, EA + 6000>>}
Strengths == {<<50000, 10000>>, <<-5000, 10000>>, <<50000, -5000>>}

RowSetB == {Row("new", f, i, b[1], b[2]) :
               f \in FinalStates, i \in InitialStates, b \in Strengths}

\* the rows that follow the first row of a table end in the ground state
RowSetNext == {r \in RowSetB : r.idx_1 = 1}

RECURSIVE TablesB(_)
\* the tables of at most n rows
TablesB(n) ==
    IF n = 0 THEN {<<>>}
    ELSE IF n = 1 THEN SeqsUpTo(RowSetB, 1)
    ELSE TablesB(n - 1)
             \cup {Append(t, r) : t \in {u \in TablesB(n - 1) : Len(u) = n - 1},
                                  r \in RowSetNext}

GoodListing == <<FileE1, FileX, FileE2>>
GoodContent == (FileE1 :> GoodE1) @@ (FileE2 :> GoodE2) @@ (FileX :> <<>>)

\* the tables of the log: the rows are in the current layout, of which the
\* legacy parser reads no more than the first
RowsB(mode) == IF mode = "new" THEN TablesB(MaxRows) ELSE TablesB(1)

\* Parity doublets: a 0- and a 2- state within half a keV of the 0+ and
\* the 2+ state, so that the transition logs print the same energies for
\* both pairs; one log per parity, or two logs of the same parity
DoubletE == EnergyLog(ConvShort, <<Rec(EA + 100, 0, -1, 0), Rec(EA + 3100, 4, -1, 0)>>, TRUE)

RowK(layout, b) == Row(layout, <<0, 1, EA>>, <<4, 2, EA + 3000>>, b, 10000)

InitK ==
    \E mode \in {"new", "old"}, prty \in {1, -1}, type \in {"E2", "M1"},
       b1 \in {50000, 70000}, b2 \in {50000, 70000}, m \in {20, 50} :
        Begin(mode, <<FileE1, FileE2, FileT1, FileT2>>,
              (FileE1 :> GoodE1) @@ (FileE2 :> DoubletE)
                  @@ (FileT1 :> TransitLog(<<m>>, "p", "p", type, 1, 1,
                                           <<RowK(mode, b1)>>))
                  @@ (FileT2 :> TransitLog(<<m>>, "n", "n", type, prty, prty,
                                           <<RowK(mode, b2)>>)),
              Existing({}))

\* A 2+ and a 2- state that are both the second eigenstate of their energy
\* log, and a log of the two wave functions with one row from the state
\* <<4, 2>> to the state <<4, 2>>: the 2+ state to itself if the log
\* announces equal parities, the 2- state to the 2+ state otherwise
OddE == EnergyLog(ConvShort, <<Rec(EA + 1000, 0, -1, 0), Rec(EA + 5000, 4, -1, 0)>>, TRUE)

RowP(layout, pi, b) ==
    Row(layout, <<4, 2, EA + 3000>>,
        <<4, 2, IF pi = 1 THEN EA + 3000 ELSE EA + 5000>>, b, 10000)

InitP ==
    \E mode \in {"new", "old"}, pi \in {1, -1}, type \in {"E1", "M1"},
       wr \in {"p", "n"}, b \in {50000, 70000}, m \in {20, 50} :
        Begin(mode, <<FileE1, FileE2, FileT1>>,
              (FileE1 :> GoodE1) @@ (FileE2 :> OddE)
                  @@ (FileT1 :> TransitLog(<<m>>, "p", wr, type, 1, pi,
                                           <<RowP(mode, pi, b)>>)),
              Existing({}))

\* One transition log of every shape
InitB ==
    \E mode \in {"new", "old"} :
    \E masses \in {<<>>, <<20>>, <<20, 50>>},
       w \in {<<"p", "p", 1>>, <<"p", "n", -1>>},
       type \in {"E1", "E2"},
       rows \in RowsB(mode) :
        Begin(mode, GoodListing \o <<FileT1>>,
              (FileT1 :> TransitLog(masses, w[1], w[2], type, 1, w[3], rows))
                  @@ GoodContent,
              Existing({}))

\* Two transition logs, in both layouts, with a "pn=" line in a table
RowC(layout, up) ==
    IF up THEN Row(layout, <<0, 1, EA>>, <<4, 2, EA + 3000>>, 50000, 10000)
    ELSE Row(layout, <<4, 2, EA + 3000>>, <<0, 1, EA>>, 50000, 10000)

RowsC(layout) ==
    {<<RowC(layout, up), PnLine, RowC(layout, ~up)>> : up \in BOOLEAN}

\* diagonal logs
LogsC == {TransitLog(<<m, m>>, "p", "p", type, 1, 1, rows) :
             m \in {20, 50}, type \in {"E2", "M1"},
             rows \in RowsC("new") \cup RowsC("old")}

\* logs that are diagonal or not, some with the downward row alone
LogsC2 == {TransitLog(<<m, m>>, "p", wr, type, 1, 1, rows) :
              m \in {20, 50}, wr \in {"p", "n"}, type \in {"E2", "M1"},
              rows \in RowsC("new") \cup RowsC("old")
                           \cup {<<RowC("new", FALSE)>>, <<RowC("old", FALSE)>>}}

InitC ==
    \E mode \in {"new", "old"}, t1 \in LogsC, t2 \in LogsC2 :
        Begin(mode, <<FileT2>> \o GoodListing \o <<FileT1>>,
              (FileT1 :> t1) @@ (FileT2 :> t2) @@ GoodContent, Existing({}))

\* The argument, the directory and the working directory
Modes == {"new", "old", "NEW", "OLD", "New", "newest", ""}

ListingsD == {<<>>, <<FileX>>, <<FileT1>>, <<FileE1>>, <<FileE2, FileE1>>,
              <<FileE1, FileT1>>, <<FileT1, FileE3, FileE1>>, <<FileT1, FileE3>>,
              <<FileE3, FileT3>>, <<FileT3, FileT1, FileE1>>, <<FileE3, FileE4>>}

ContentD ==
    (FileE1 :> GoodE1) @@ (FileE2 :> GoodE2) @@ (FileX :> <<>>)
    @@ (FileE3 :> EnergyLog(ConvLong, <<Rec(EA, 0, 1, 0)>>, TRUE))
    @@ (FileE4 :> EnergyLog(ConvShort, <<Rec(EA - 1000, 4, 1, 0)>>, TRUE))
    @@ (FileT1 :> TransitLog(<<20>>, "p", "p", "E2", 1, 1, <<RowC("new", TRUE)>>))
    @@ (FileT3 :> TransitLog(<<20>>, "p", "p", "E2", 1, 1, <<RowC("old", TRUE)>>))

InitD ==
    \E mode \in Modes, l \in ListingsD, cs \in ExistingSets :
        Begin(mode, l, [f \in Range(l) |-> ContentD[f]], Existing(cs))

\* Logs as the solver prints them: the energy log with more decimals than
\* the transition log, whose energies and gamma energy are each the
\* nearest multiple of 1e-3 MeV.
\*   m0p: 0+ at -0.005400, 2+ at 0.495200
EG == -5400
EX == EG + 500600

Printed3(x) == Fmt3(x) * 1000

LogE == EnergyLog(ConvShort, <<Rec(EG, 0, 1, 0), Rec(EX, 4, 1, 0)>>, TRUE)

\* strengths above the threshold, and both below it
StrengthsE == {<<50000, 10000>>, <<-5000, -7000>>}

RowE(layout, up, b) ==
    IF up
    THEN TLine("row", 0, "", "", 0, 0, layout, 0, 1, Printed3(EG),
               4, 2, Printed3(EX), Printed3(EX - EG), b[1], b[2])
    ELSE TLine("row", 0, "", "", 0, 0, layout, 4, 2, Printed3(EX),
               0, 1, Printed3(EG), Printed3(EG - EX), b[1], b[2])

InitE ==
    \E mode \in {"new", "old"}, wr \in {"p", "n"}, type \in {"E2", "M1"},
       up \in BOOLEAN, b \in StrengthsE :
        Begin(mode, <<FileE1, FileT1>>,
              (FileE1 :> LogE)
                  @@ (FileT1 :> TransitLog(<<20>>, "p", wr, type, 1, 1,
                                           <<RowE(mode, up, b)>>)),
              Existing({}))

\* One eigenstate of every doubled spin and isospin the solver may print,
\* -1 for a value it could not determine
SpinsF == (-1)..MaxSpin

InitF ==
    \E sp \in SpinsF, t \in SpinsF :
        Begin("new", <<FileE1>>,
              (FileE1 :> EnergyLog(ConvShort, <<Rec(EA, sp, 1, t)>>, TRUE)),
              Existing({}))

\* Tables with a row in the place of the header line, a "pn=" line before
\* or after a row, and a row after the blank line that ends the table.
\* The rows are of one transition and differ in a strength.
RowT(layout, b) == Row(layout, <<0, 1, EA>>, <<4, 2, EA + 3000>>, b, 10000)

HeadsT(layout) == {TText, TBlank, RowT(layout, 70000)}

TablesT(layout) ==
    {<<>>, <<PnLine>>, <<RowT(layout, 50000)>>,
     <<PnLine, RowT(layout, 50000)>>, <<RowT(layout, 50000), PnLine>>}

TailsT(layout) == {<<>>, <<TText>>, <<RowT(layout, 90000)>>}

InitT ==
    \E mode \in {"new", "old"} :
    \E head \in HeadsT(mode), rows \in TablesT(mode), tail \in TailsT(mode) :
        Begin(mode, GoodListing \o <<FileT1>>,
              (FileT1 :> (<<MassLine(20), WaveL("p"), WaveR("n"),
                            Announce("E2", 1, 1), head>>
                          \o rows \o <<TBlank>> \o tail))
                  @@ GoodContent,
              Existing({}))

\* A call on a directory that is not the working directory: the logs
\* listed are those of the directory, the files opened are those that the
\* working directory has under the same names, none or others
CwdG == {EmptyMap,
         (FileE1 :> GoodE2),
         (FileE1 :> GoodE2) @@ (FileT1 :> TransitLog(<<20>>, "p", "p", "E2", 1, 1, <<>>))}

InitG ==
    \E mode \in {"new", "old"}, l \in {<<FileE1>>, <<FileE1, FileT1>>},
       c \in CwdG, cs \in ExistingSets :
        BeginAt("data", mode, l, c, Existing(cs))

\* The calls that may follow in the same process, in the same working
\* directory, after the logs in it were replaced:
\*   - an energy log with the 0+ state alone and a transition log with a
\*     row 0+_1 <- 2+_2, a state no energy log of that call holds;
\*   - the energy log of the 2- state alone.
LaterCalls ==
    {[mode |-> "new", listing |-> <<FileE1, FileT1>>,
      content |-> (FileE1 :> EnergyLog(ConvShort, <<Rec(EA, 0, 1, 0)>>, TRUE))
                  @@ (FileT1 :> TransitLog(<<20>>, "p", "p", "E2", 1, 1, <<RowC("new", TRUE)>>))],
     [mode |-> "new", listing |-> <<FileE2>>, content |-> (FileE2 :> GoodE2)]}

\* A later call of collect_logs in the process of a call that has ended:
\* the globals n_jnp and E_gs (lines 9 and 11) and the working directory
\* are as the earlier call left them, the locals are new.
Call ==
    /\ pc \in {"done", "error"}
    /\ run < MaxRuns
    /\ run' = run + 1
    /\ \E a \in LaterCalls :
          /\ old_or_new' = a.mode
          /\ listing' = a.listing
          /\ content' = a.content
    /\ cwd0' = cwd
    /\ pc' = Stages[1]
    /\ err' = ""
    /\ energy_log_files' = <<>>
    /\ transit_log_files' = <<>>
    /\ isotopes' = <<>>
    /\ E_data' = EmptyMap
    /\ energies' = <<>>
    /\ ei' = 1
    /\ counter' = 0
    /\ mt' = 1
    /\ fi' = 1
    /\ output_e' = EmptyMap
    /\ mass' = 0
    /\ warned' = FALSE
    /\ io' = <<>>
    /\ UNCHANGED <<path, cwd, n_jnp, E_gs>>

Next ==
    \/ Validate
    \/ Discover
    \/ Choose
    \/ CheckFiles
    \/ ReadEnergy
    \/ AssignIndices
    \/ PickName
    \/ WriteLevels
    \/ ReadTransit
    \/ WriteBlock
    \/ Close
    \/ Call

Init == InitA \/ InitH \/ InitB \/ InitC \/ InitD \/ InitE \/ InitF \/ InitG
           \/ InitT \/ InitK \/ InitP

Spec == Init /\ [][Next]_vars

-----------------------------------------------------------------------------
(* What a state tells of the run so far *)

MinOf(S) == CHOOSE x \in S : \A y \in S : x <= y

\* the positions of io at which a log file was opened
OpensOf(f) == {i \in DOMAIN io : io[i].op = "open" /\ io[i].file = f}

TransitOpens == {i \in DOMAIN io : io[i].op = "open" /\ HasTr(io[i].file)}

\* every call of read_energy_logfile of the run has returned
EnergyLogsRead == pc # "hang" /\ ei > Len(energy_log_files)

\* the name of the summary of the run
Summary == SummaryName(energy_log_files[1], counter)

\* the run has created its summary file
SummaryOpened == \E i \in DOMAIN io : io[i].op = "write"

-----------------------------------------------------------------------------
(* C1 *)

\* C1: when a transition log is opened, every energy log of the run has
\* been opened before it and read to its end, and E_gs is the lowest key of
\* the energy table; once the indices are assigned (energies is set), no
\* step of the run changes E_gs.
C1_EnergiesBeforeTransitions ==
    /\ [](\A i \in TransitOpens :
            /\ \A f \in Range(energy_log_files) : \E j \in OpensOf(f) : j < i
            /\ EnergyLogsRead
            /\ DOMAIN E_data # {}
            /\ E_gs = MinOf(DOMAIN E_data))
    /\ [][energies # <<>> => E_gs' = E_gs]_vars

\* a second transition log is being read with E_gs set to the lowest energy
C1_Witness ==
    /\ pc = "transit"
    /\ fi = 2
    /\ Len(energy_log_files) = 2
    /\ E_gs = EA
    /\ Cardinality(DOMAIN E_data) = 3

-----------------------------------------------------------------------------
(* C2 *)

RECURSIVE ReadAll(_, _)
\* the table after the energy logs of files are read in that order
ReadAll(files, E) ==
    IF files = <<>> THEN E
    ELSE ReadAll(Tail(files), read_energy_logfile(Head(files), content[Head(files)], E).E)

\* the orders in which the energy logs of the run may be visited
Orders(files) ==
    {p \in [1..Len(files) -> Range(files)] : \A i, j \in 1..Len(files) : p[i] = p[j] => i = j}

\* the index map and the levels block of a run that visits the energy logs
\* in the order p
RunOn(p) ==
    LET E == ReadAll(p, EmptyMap)
        es == SetToSortedSeq(DOMAIN E)
        r == AssignLoop(es, 1, EmptyMap, EmptyMap, E)
    IN [n_jnp |-> r.n_jnp,
        levels |-> [i \in 1..Len(es) |-> LevelRow(i, es[i], r.E_data[es[i]], GroundState(es))]]

\* C2: whatever the order in which the energy logs are visited, the index
\* map and the levels block are those of this run.
C2_OrderIndependent ==
    (run = 1 /\ pc \in {"transit", "done"} /\ SummaryOpened) =>
        \A p \in Orders(energy_log_files) :
            /\ RunOn(p).n_jnp = n_jnp
            /\ RunOn(p).levels = cwd[Summary].levels

-----------------------------------------------------------------------------
(* C3 *)

\* the mass numbers a transition log declares
DeclaredMasses(lines) == {lines[i].mass : i \in {j \in DOMAIN lines : lines[j].k = "mass"}}

\* the transition logs opened so far for the multipole type at hand
OpenedForType ==
    {transit_log_files[k] :
        k \in 1..(Cardinality(TransitOpens) - (mt - 1) * Len(transit_log_files))}

\* C3: when two transition logs read for one multipole type declare
\* different mass numbers, the run has ended with an error and has not
\* written its summary.
C3_MassMismatchAborts ==
    (\E f1, f2 \in OpenedForType :
        /\ f1 # f2
        /\ \E m1 \in DeclaredMasses(content[f1]), m2 \in DeclaredMasses(content[f2]) : m1 # m2)
    => (pc = "error" /\ ~SummaryOpened)

-----------------------------------------------------------------------------
(* C4 *)

\* the rows of all multipole blocks of all summaries
WrittenRows ==
    UNION {UNION {Range(cwd[n].blocks[b].rows) : b \in DOMAIN cwd[n].blocks} : n \in DOMAIN cwd}

ParseTransit(lines, type) ==
    IF Lower(old_or_new) = "new"
    THEN read_transit_logfile(lines, type, [E_gs |-> E_gs, n_jnp |-> n_jnp])
    ELSE read_transit_logfile_old(lines, type, [E_gs |-> E_gs, n_jnp |-> n_jnp])

\* the positions of the rows of the table of a multipole type: the lines
\* from the second after the announcement to the first blank line
TableRows(lines, type) ==
    LET As == {i \in DOMAIN lines : lines[i].k = "announce" /\ lines[i].type = type}
    IN IF As = {} THEN {}
       ELSE LET a == MinOf(As)
                Bs == {i \in DOMAIN lines : i > a + 1 /\ lines[i].k = "blank"}
                end == IF Bs = {} THEN Len(lines) + 1 ELSE MinOf(Bs)
            IN {i \in (a + 2)..(end - 1) : lines[i].k = "row"}

\* a row with the same spin and the same local index at its two ends
IsSelfRow(line) ==
    line.k = "row" /\ line.spin_final = line.spin_initial /\ line.idx_1 = line.idx_2

\* the log without its self-transition rows
WithoutSelfRows(lines) == SelectSeq(lines, LAMBDA l : ~IsSelfRow(l))

RECURSIVE MergedWithoutSelfRows(_, _)
\* output_e after the first k transition logs, had they no self-transition row
MergedWithoutSelfRows(type, k) ==
    IF k = 0 THEN EmptyMap
    ELSE ParseTransit(WithoutSelfRows(content[transit_log_files[k]]), type).out_e
         @@ MergedWithoutSelfRows(type, k - 1)

-----------------------------------------------------------------------------
(* C10 *)

\* the two keys of n_jnp a row of a table looks up, lines 449-450
EndpointKeys(lines, type, i) ==
    LET a == MinOf({j \in DOMAIN lines : lines[j].k = "announce" /\ lines[j].type = type})
    IN {<<lines[i].spin_final, parity_integer_to_string(lines[a].pf), lines[i].idx_1>>,
        <<lines[i].spin_initial, parity_integer_to_string(lines[a].pi), lines[i].idx_2>>}

\* C10: a transition log whose table holds a row with an endpoint that is
\* not in the index map is not read to its end: the run is aborted.
C10_MissingEndpointAborts ==
    pc = "transit" =>
        \A k \in 1..(fi - 1) :
            LET lines == content[transit_log_files[k]]
            IN \A i \in TableRows(lines, multipole_types[mt]) :
                   EndpointKeys(lines, multipole_types[mt], i) \subseteq DOMAIN n_jnp


-----------------------------------------------------------------------------
(* C5 *)

\* the eigenstate records of an energy log: the "<H>:" lines that follow
\* the marker line and have their " T:" line
Records(lines) ==
    {i \in DOMAIN lines :
        /\ lines[i].k = "H"
        /\ \E j \in 1..(i - 1) : ~NotMarker(lines[j])
        /\ \E t \in (i + 1)..Len(lines) :
              lines[t].k = "T" /\ \A m \in (i + 1)..(t - 1) : lines[m].k \notin {"H", "T"}}

\* the records of the energy logs read so far, as <<file number, line>>
RecordsRead ==
    {<<k, i>> \in (1..(ei - 1)) \X (1..(2 * MaxRecords + 1)) :
        i \in Records(content[energy_log_files[k]])}

\* the energy printed in the log for a record
PrintedEnergy(r) == content[energy_log_files[r[1]]][r[2]].energy

\* the keys of the table whose entry is that of the record r
KeysOf(r) ==
    {e \in DOMAIN E_data :
        /\ E_data[e].filename = energy_log_files[r[1]]
        /\ E_data[e].n_eig = content[energy_log_files[r[1]]][r[2]].n_eig}

\* r1 is read before r2
Before(r1, r2) == r1[1] < r2[1] \/ (r1[1] = r2[1] /\ r1[2] < r2[2])

\* C5: while the energy logs are read, and until the indices are assigned,
\* the table has as many keys as records have been read, every record has
\* its own key, a record whose printed energy is the key of a record read
\* before it lies a positive number of steps of 1e-6 above its printed
\* energy, and any other record lies at its printed energy.
C5_OneKeyPerRecord ==
    (pc \in {"read_energy", "assign"} /\ energies = <<>>) =>
        /\ Cardinality(DOMAIN E_data) = Cardinality(RecordsRead)
        /\ \A r \in RecordsRead :
              /\ Cardinality(KeysOf(r)) = 1
              /\ \A e \in KeysOf(r) :
                    IF \E q \in RecordsRead : Before(q, r) /\ PrintedEnergy(r) \in KeysOf(q)
                    THEN e > PrintedEnergy(r)
                    ELSE e = PrintedEnergy(r)

\* a record was moved by two steps: its energy and the next one were taken
C5_Witness ==
    /\ pc = "assign"
    /\ \E r \in RecordsRead : PrintedEnergy(r) + 2 \in KeysOf(r)

-----------------------------------------------------------------------------
(* C6 *)

\* the 1-based rank of the key e among the keys of its spin and parity
RankOf(e) ==
    Cardinality({e2 \in DOMAIN E_data :
                    /\ E_data[e2].spin = E_data[e].spin
                    /\ E_data[e2].parity = E_data[e].parity
                    /\ e2 <= e})

\* C6: once the indices are assigned, the index of every state of the table
\* is its rank by energy among the states of its spin and parity, and that
\* is the index the levels block prints for it.
C6_IndexIsRank ==
    /\ energies # <<>> => \A e \in DOMAIN E_data : E_data[e].n_eig = RankOf(e)
    /\ SummaryOpened =>
          \A i \in DOMAIN cwd[Summary].levels :
              cwd[Summary].levels[i].N_Jp = RankOf(energies[i])

\* two states of one spin and parity came from different logs, and the
\* second of them by energy was the first eigenstate of its log
C6_Witness ==
    /\ SummaryOpened
    /\ \E e1, e2 \in DOMAIN E_data :
          /\ e1 < e2
          /\ E_data[e1].filename # E_data[e2].filename
          /\ E_data[e2].n_eig = 2
          /\ \E i \in Records(content[E_data[e2].filename]) :
                /\ content[E_data[e2].filename][i].n_eig = 1
                /\ content[E_data[e2].filename][i].energy = e2

-----------------------------------------------------------------------------
(* C7 *)

\* the directory has been listed and the lists of log files are final
Discovered ==
    /\ \E i \in DOMAIN io : io[i].op = "listdir"
    /\ pc \notin {"discover", "choose"}

\* C7: a run that found no energy log, or whose energy table is empty when
\* all its energy logs are read, has stopped with an error, and the
\* working directory is as it was before the run: no summary was created
\* and none was changed.
C7_NoEnergyDataIsFatal ==
    /\ (Discovered /\ pc # "check" /\ Len(energy_log_files) = 0) =>
          /\ pc = "error" /\ err = "FileNotFoundError"
          /\ cwd = cwd0 /\ ~SummaryOpened
    /\ (Discovered /\ Len(energy_log_files) > 0 /\ EnergyLogsRead
            /\ DOMAIN E_data = {} /\ pc # "assign") =>
          /\ pc = "error" /\ err = "RuntimeError"
          /\ cwd = cwd0 /\ ~SummaryOpened

\* an energy log was read, gave no eigenstate, and the run has stopped
\* beside the summaries of earlier runs
C7_Witness ==
    /\ pc = "error" /\ err = "RuntimeError"
    /\ \E i \in DOMAIN io : io[i].op = "open"
    /\ DOMAIN cwd # {}

-----------------------------------------------------------------------------
(* C8 *)

\* energy logs were found and no transition log
OnlyEnergyLogs ==
    /\ Discovered /\ pc # "check"
    /\ Len(energy_log_files) > 0
    /\ Len(transit_log_files) = 0

\* the place of a stage in the order of the statements, the end of the run
\* after all of them
StagePos(s) ==
    IF s = "done" THEN Len(Stages) + 1
    ELSE IF \E j \in 1..Len(Stages) : Stages[j] = s
         THEN CHOOSE j \in 1..Len(Stages) : Stages[j] = s
         ELSE 0

\* the energy logs are read and gave at least one eigenstate
EnergyDataPresent == EnergyLogsRead /\ DOMAIN E_data # {}

\* C8: a run that found energy logs and no transition log has given the
\* warning, and if it has stopped with an error its energy logs were not
\* all read or gave no eigenstate.  With energy data it goes on to its
\* end: until it is done it is at the assignment of the indices, which has
\* no condition, or can
\* name its summary, write it or close it, and every step takes it to a
\* later statement.  At its end its summary holds one levels row for
\* each state and no multipole block.
C8_LevelsOnlySummary ==
    /\ [](OnlyEnergyLogs =>
            /\ warned
            /\ pc = "error" => ~EnergyDataPresent
            /\ pc = "done" =>
                  /\ Summary \in DOMAIN cwd
                  /\ Len(cwd[Summary].levels) = Cardinality(DOMAIN E_data)
                  /\ Len(cwd[Summary].levels) > 0
                  /\ cwd[Summary].blocks = <<>>)
    /\ []((OnlyEnergyLogs /\ EnergyDataPresent) =>
            \/ pc = "done"
            \/ pc = "assign"
            \/ ENABLED (PickName \/ WriteLevels \/ Close))
    /\ [][(OnlyEnergyLogs /\ EnergyDataPresent /\ pc # "done") =>
              StagePos(pc') > StagePos(pc)]_vars

\* a run without transition logs has ended with a summary of two levels,
\* beside a summary of an earlier run
C8_Witness ==
    /\ OnlyEnergyLogs
    /\ pc = "done"
    /\ Len(cwd[Summary].levels) = 2
    /\ cwd # cwd0 /\ DOMAIN cwd0 # {}

-----------------------------------------------------------------------------
(* C9 *)

\* the arguments that are "new" or "old" up to the case of their letters
NewOrOld == {"new", "old", "NEW", "OLD", "New"}

\* C9: a run whose argument is neither "new" nor "old", whatever the case,
\* has not listed the directory, opened a log or created a file, and
\* once it has taken its first step it has stopped with ValueError.
C9_InvalidModeRejectedFirst ==
    old_or_new \notin NewOrOld =>
        /\ io = <<>>
        /\ cwd = cwd0
        /\ pc = "validate" \/ (pc = "error" /\ err = "ValueError")

\* the argument "newest" was rejected in a directory that holds logs
C9_Witness ==
    /\ old_or_new = "newest"
    /\ pc = "error" /\ err = "ValueError"
    /\ Len(listing) = 3

-----------------------------------------------------------------------------
(* C11 *)

\* the keys of the index map that the energy logs of this call give
OwnKeys ==
    {<<content[energy_log_files[r[1]]][r[2]].spin,
       parity_integer_to_string(content[energy_log_files[r[1]]][r[2]].parity),
       content[energy_log_files[r[1]]][r[2]].n_eig>> : r \in RecordsRead}

\* the end of a written row is a state of the energy table of this call
IsOwnState(end) ==
    \E e \in DOMAIN E_data :
        /\ spin_to_string(E_data[e].spin) = end.J
        /\ E_data[e].parity = end.prty
        /\ E_data[e].n_eig = end.idx

\* C11: while a call reads its transition logs, the index map holds only
\* keys of the energy logs of that call, and every row it has written
\* lies between two states of its own energy table.
C11_NoStateOfEarlierRun ==
    /\ pc = "transit" => DOMAIN n_jnp \subseteq OwnKeys
    /\ (SummaryOpened /\ pc \in {"transit", "done"}) =>
          \A b \in DOMAIN cwd[Summary].blocks :
              \A r \in Range(cwd[Summary].blocks[b].rows) :
                  IsOwnState(r.first) /\ IsOwnState(r.second)

-----------------------------------------------------------------------------
(* C12 *)

\* the one-W.u. value a transition log gives for a multipole type: that of
\* the mass number of its header
HeaderUnit(lines, type) ==
    LET Ms == {i \in DOMAIN lines : lines[i].k = "mass"}
    IN IF Ms = {} THEN 0
       ELSE weisskopf_unit(type, lines[CHOOSE i \in Ms : \A j \in Ms : j <= i].mass)

\* a strength B, in units of 1e-3, is at least the threshold in units of
\* the one-W.u. value Bw
AtLeastThreshold(B, Bw) == B * 1000 >= weisskopf_threshold * Bw

\* a row with a strength below the threshold
IsWeakRow(line, Bw) ==
    /\ line.k = "row"
    /\ ~AtLeastThreshold(line.B_decay, Bw) \/ ~AtLeastThreshold(line.B_excite, Bw)

\* the log without its rows below the threshold
WithoutWeakRows(lines, type) ==
    SelectSeq(lines, LAMBDA l : ~IsWeakRow(l, HeaderUnit(lines, type)))

RECURSIVE MergedWithoutWeakRows(_, _)
\* output_e after the first k transition logs, had they no row below the
\* threshold
MergedWithoutWeakRows(type, k) ==
    IF k = 0 THEN EmptyMap
    ELSE ParseTransit(WithoutWeakRows(content[transit_log_files[k]], type), type).out_e
         @@ MergedWithoutWeakRows(type, k - 1)

\* C12: both strengths of every row written are at least the threshold in
\* Weisskopf units, and a row of a log with a strength below it leaves no
\* trace: the rows collected for a multipole type are those of the same
\* logs with such rows taken out.
C12_ThresholdFilter ==
    /\ \A r \in WrittenRows :
          /\ AtLeastThreshold(r.B1.wu[1], r.B1.wu[2])
          /\ AtLeastThreshold(r.B2.wu[1], r.B2.wu[2])
    /\ pc = "transit" =>
          output_e = MergedWithoutWeakRows(multipole_types[mt], fi - 1)

\* a log with a row of too low an excitation strength in its table has
\* been read, another row of it was kept, and a block with a row is written
C12_Witness ==
    /\ pc = "transit"
    /\ fi = 2
    /\ \E i \in TableRows(content[transit_log_files[1]], multipole_types[mt]) :
          LET Bw == HeaderUnit(content[transit_log_files[1]], multipole_types[mt])
              line == content[transit_log_files[1]][i]
          IN AtLeastThreshold(line.B_decay, Bw) /\ ~AtLeastThreshold(line.B_excite, Bw)
    /\ output_e # EmptyMap

-----------------------------------------------------------------------------
(* C13 *)

\* the log is diagonal: its two wave function files are the same
IsDiagLog(lines) ==
    \E i, j \in DOMAIN lines :
        lines[i].k = "wave_l" /\ lines[j].k = "wave_r" /\ lines[i].wf = lines[j].wf

\* a row with a negative gamma energy
IsBackRow(line) == line.k = "row" /\ line.dE < 0

\* the log without its rows of negative gamma energy, if it is diagonal
WithoutBackRows(lines) ==
    IF IsDiagLog(lines) THEN SelectSeq(lines, LAMBDA l : ~IsBackRow(l)) ELSE lines

RECURSIVE MergedWithoutBackRows(_, _)
\* output_e after the first k transition logs, had the diagonal ones no
\* row of negative gamma energy
MergedWithoutBackRows(type, k) ==
    IF k = 0 THEN EmptyMap
    ELSE ParseTransit(WithoutBackRows(content[transit_log_files[k]]), type).out_e
         @@ MergedWithoutBackRows(type, k - 1)

\* the row of a log is among the rows collected, under the key and in the
\* form of lines 468-490
BackRowKept(lines, type, i) ==
    LET a == MinOf({j \in DOMAIN lines : lines[j].k = "announce" /\ lines[j].type = type})
        line == lines[i]
        c == [E_gs |-> E_gs,
              parity_final |-> parity_integer_to_string(lines[a].pf),
              parity_initial |-> parity_integer_to_string(lines[a].pi),
              B_weisskopf |-> HeaderUnit(lines, type)]
        r == FormatRow(line, c,
                       n_jnp[<<line.spin_final, c.parity_final, line.idx_1>>],
                       n_jnp[<<line.spin_initial, c.parity_initial, line.idx_2>>])
    IN /\ r.key \in DOMAIN output_e
       /\ output_e[r.key].first = r.out.first
       /\ output_e[r.key].second = r.out.second
       /\ output_e[r.key].dE = Fmt3(-line.dE)

\* C13: a row of negative gamma energy of a diagonal log leaves no trace:
\* the rows collected are those of the same logs with such rows taken out
\* of the diagonal ones.  A row of negative gamma energy of a log that is
\* not diagonal is collected, unless its two states have the same spin and
\* number or one of its strengths is below the threshold.
C13_DiagonalNegativeGamma ==
    pc = "transit" =>
        /\ output_e = MergedWithoutBackRows(multipole_types[mt], fi - 1)
        /\ \A k \in 1..(fi - 1) :
              LET lines == content[transit_log_files[k]]
                  type == multipole_types[mt]
              IN ~IsDiagLog(lines) =>
                    \A i \in TableRows(lines, type) :
                        (/\ IsBackRow(lines[i])
                         /\ ~IsSelfRow(lines[i])
                         /\ ~IsWeakRow(lines[i], HeaderUnit(lines, type)))
                        => BackRowKept(lines, type, i)

\* two logs were read for a multipole type, each with a row of negative
\* gamma energy in its table, one diagonal and one not
C13_Witness ==
    /\ pc = "transit"
    /\ fi = 3
    /\ \E k1, k2 \in 1..2 :
          LET l1 == content[transit_log_files[k1]]
              l2 == content[transit_log_files[k2]]
          IN /\ IsDiagLog(l1) /\ ~IsDiagLog(l2)
             /\ \E i \in TableRows(l1, multipole_types[mt]) : IsBackRow(l1[i])
             /\ \E i \in TableRows(l2, multipole_types[mt]) : IsBackRow(l2[i])
    /\ output_e # EmptyMap

-----------------------------------------------------------------------------
(* C14 *)

RECURSIVE MergedInOrder(_, _, _)
\* output_e after the first k transition logs of the order p are read for
\* a multipole type, lines 620-627
MergedInOrder(p, type, k) ==
    IF k = 0 THEN EmptyMap
    ELSE ParseTransit(content[p[k]], type).out_e @@ MergedInOrder(p, type, k - 1)

\* C14: when all transition logs are read for a multipole type, the rows
\* collected, which are written in the order of their keys, are those that
\* any other order of the logs gives.
C14_TransitOrderIndependent ==
    (pc = "transit" /\ fi > Len(transit_log_files)) =>
        \A p \in Orders(transit_log_files) :
            MergedInOrder(p, multipole_types[mt], Len(p)) = output_e

-----------------------------------------------------------------------------
(* C15 *)

\* the files of the working directory that this call created
Created == DOMAIN cwd \ DOMAIN cwd0

\* the summary names of the run's isotope and model space with a number
\* below c
NamesBelow(c) == {SummaryName(energy_log_files[1], d) : d \in 0..(c - 1)}

\* C15: the only file a call creates is the summary named after the isotope
\* and the model space of its first energy log with the smallest number
\* whose name no file of the working directory had; the search for it ends
\* at a number no greater than the number of files there; and every file
\* that was in the working directory is still there, unchanged.
C15_FreshSummaryName ==
    /\ \A n \in DOMAIN cwd0 : n \in DOMAIN cwd /\ cwd[n] = cwd0[n]
    /\ Cardinality(Created) <= 1
    /\ \A n \in Created :
          /\ n = Summary
          /\ NamesBelow(counter) \subseteq DOMAIN cwd0
    /\ pc \in {"levels", "transit", "done"} =>
          /\ counter <= Cardinality(DOMAIN cwd0)
          /\ Summary \notin DOMAIN cwd0

\* a summary was written under a number above 0, beside the summaries found
C15_Witness ==
    /\ pc = "done"
    /\ Created = {Summary}
    /\ counter > 0
    /\ \E n \in DOMAIN cwd0 : cwd[n].old

-----------------------------------------------------------------------------
(* C16 *)

\* the blocks of the summary of the run
Blocks == cwd[Summary].blocks

\* the run has ended with its summary written
SummaryDone == pc = "done" /\ Summary \in Created

\* C16, as stated: a block is in the summary only for a multipole type
\* with at least one row.
C16_BlockOnlyWithRows ==
    SummaryDone => \A i \in DOMAIN Blocks : Len(Blocks[i].rows) > 0

\* C16, as the code has it: with at least one transition log the summary
\* has a block for each of E1, M1 and E2, in this order, whose rows are as
\* many as the rows collected for the type, none when none was collected;
\* with no transition log it has no block.
C16_BlockPerType ==
    SummaryDone =>
        IF Len(transit_log_files) > 0
        THEN /\ Len(Blocks) = 3
             /\ \A i \in 1..3 :
                   /\ Blocks[i].type = <<"E1", "M1", "E2">>[i]
                   /\ Len(Blocks[i].rows) =
                         Cardinality(DOMAIN MergedInOrder(transit_log_files,
                                                          Blocks[i].type,
                                                          Len(transit_log_files)))
        ELSE Blocks = <<>>

\* a summary with a block without rows and a block with rows
C16_Witness ==
    /\ SummaryDone
    /\ \E i \in DOMAIN Blocks : Len(Blocks[i].rows) = 0
    /\ \E i \in DOMAIN Blocks : Len(Blocks[i].rows) > 0

-----------------------------------------------------------------------------
(* C17 *)

\* every strength of every row of the tables of a multipole type, in every
\* transition log, is below the threshold in Weisskopf units
AllBelowThreshold(type) ==
    \A k \in DOMAIN transit_log_files :
        LET lines == content[transit_log_files[k]]
        IN \A i \in TableRows(lines, type) :
              /\ ~AtLeastThreshold(lines[i].B_decay, HeaderUnit(lines, type))
              /\ ~AtLeastThreshold(lines[i].B_excite, HeaderUnit(lines, type))

\* the tables of a multipole type have a row
SomeRow(type) ==
    \E k \in DOMAIN transit_log_files :
        TableRows(content[transit_log_files[k]], type) # {}

\* C17: when every strength computed for a multipole type is below the
\* threshold, the summary of a run with transition logs has the block of
\* that type, with the threshold, the mass and the one-W.u. value of its
\* header, and no row in it.
C17_HeaderWithoutRows ==
    (SummaryDone /\ Len(transit_log_files) > 0) =>
        \A i \in DOMAIN multipole_types :
            AllBelowThreshold(multipole_types[i]) =>
                /\ i \in DOMAIN Blocks
                /\ Blocks[i].type = multipole_types[i]
                /\ Blocks[i].threshold = weisskopf_threshold
                /\ Blocks[i].B_weisskopf =
                      weisskopf_unit(multipole_types[i], Blocks[i].mass)
                /\ Blocks[i].unit = unit_weisskopf_of(multipole_types[i])
                /\ Blocks[i].rows = <<>>

\* a summary was written from a log whose table of a multipole type has
\* rows, all with both strengths below the threshold
C17_Witness ==
    /\ SummaryDone
    /\ \E i \in DOMAIN multipole_types :
          /\ SomeRow(multipole_types[i])
          /\ AllBelowThreshold(multipole_types[i])
          /\ Blocks[i].rows = <<>>

-----------------------------------------------------------------------------
(* C18 *)

\* the log has a line that begins with "H converged" or "H bn converged"
HasConvergedLine(lines) ==
    \E i \in DOMAIN lines : lines[i].k = "conv" \/ lines[i].k = "bn"

\* C18: every record of the table comes from an energy log with a line
\* that begins with "H converged" or "H bn converged": a log without such
\* a line adds no record.
C18_NoMarkerNoRecord ==
    \A e \in DOMAIN E_data : HasConvergedLine(content[E_data[e].filename])

-----------------------------------------------------------------------------
(* C19 *)

\* the rows of the levels block of the summary of the run
Levels == cwd[Summary].levels

\* the number of keys of the table below the key e
KeysBelow(e) == Cardinality({e2 \in DOMAIN E_data : e2 < e})

\* C19: the levels block has one row for each record of the table: the
\* row of the record with i - 1 records below it in energy is the i-th,
\* with N = i, the record's spin, parity, isospin and log, its energy, and
\* its energy above the lowest of the table, which is E_gs.  So the rows
\* ascend in energy, every Ex is at least 0 and that of the first row is 0.
C19_LevelsBlock ==
    SummaryOpened =>
        /\ Len(Levels) = Cardinality(DOMAIN E_data)
        /\ E_gs = MinOf(DOMAIN E_data)
        /\ \A e \in DOMAIN E_data :
              LET row == Levels[KeysBelow(e) + 1]
              IN /\ row.N = KeysBelow(e) + 1
                 /\ row.J = spin_to_string(E_data[e].spin)
                 /\ row.prty = E_data[e].parity
                 /\ row.T = spin_to_string(E_data[e].tt)
                 /\ row.file = E_data[e].filename
                 /\ row.E = Fmt3(e)
                 /\ row.Ex = Fmt3(e - MinOf(DOMAIN E_data))
        /\ \A i \in DOMAIN Levels :
              /\ Levels[i].N = i
              /\ Levels[i].Ex >= 0
              /\ \A j \in DOMAIN Levels : i < j => Levels[i].E <= Levels[j].E
        /\ Levels[1].Ex = 0

\* a levels block of states of different energies from two logs, the
\* lowest of them read from the second log
C19_Witness ==
    /\ SummaryOpened
    /\ Len(energy_log_files) = 2
    /\ Len(Levels) >= 2
    /\ Levels[1].file = energy_log_files[2]
    /\ Levels[Len(Levels)].Ex > 0

-----------------------------------------------------------------------------
(* C20 *)

\* C20: the gamma energy of every row written is the distance of the two
\* excitation energies of the row, as they are printed.
C20_GammaIsDifference ==
    \A r \in WrittenRows : r.dE = Abs(r.first.Ex - r.second.Ex)

-----------------------------------------------------------------------------
(* C21 *)

\* the string printed for a doubled spin s renders s/2: read back and
\* doubled it is s, an integer string for even s and "n/2" for odd s; for
\* a negative s it is the integer s itself
RendersHalf(J, s) ==
    IF s >= 0
    THEN /\ 2 * J.num = s * J.den
         /\ J.den = (IF s % 2 = 0 THEN 1 ELSE 2)
    ELSE J.num = s /\ J.den = 1

\* C21: the spin and the isospin printed in every row of the levels block
\* render half the doubled value of the record, so that reading the string
\* back and doubling it returns the doubled value, and a negative doubled
\* value is printed as it is.
C21_SpinRoundTrip ==
    SummaryOpened =>
        \A i \in DOMAIN Levels :
            /\ RendersHalf(Levels[i].J, E_data[energies[i]].spin)
            /\ RendersHalf(Levels[i].T, E_data[energies[i]].tt)

\* a level of spin 5/2 and undetermined isospin was written
C21_Witness ==
    /\ SummaryOpened
    /\ \E i \in DOMAIN Levels :
          /\ E_data[energies[i]].spin = 5
          /\ Levels[i].J = [num |-> 5, den |-> 2]
          /\ E_data[energies[i]].tt = -1
          /\ Levels[i].T = [num |-> -1, den |-> 1]

-----------------------------------------------------------------------------
(* C22 *)

\* C22: the reader of an energy log never reads on for ever: no run is
\* left in a call of read_energy_logfile that does not end.
C22_ReadEnergyTerminates == pc # "hang"

-----------------------------------------------------------------------------
(* C23 *)

\* C23: every log file is opened in the directory that was listed.
C23_OpensInPath ==
    \A i \in DOMAIN io : io[i].op = "open" => io[i].dir = path

-----------------------------------------------------------------------------
(* C24 *)

\* the position of the announcement of a multipole type in a log, 0 if it
\* has none
AnnouncedAt(lines, type) ==
    LET As == {i \in DOMAIN lines : lines[i].k = "announce" /\ lines[i].type = type}
    IN IF As = {} THEN 0 ELSE MinOf(As)

\* the position of the blank line that ends the table, past the last line
\* if there is none
TableEnd(lines, type) ==
    LET a == AnnouncedAt(lines, type)
        Bs == {i \in DOMAIN lines : i > a + 1 /\ lines[i].k = "blank"}
    IN IF Bs = {} THEN Len(lines) + 1 ELSE MinOf(Bs)

\* the log with a line of text in the place of the line after the
\* announcement, without the "pn=" lines of the table and without the
\* lines after the blank line that ends the table
PlainTable(lines, type) ==
    LET a == AnnouncedAt(lines, type)
        e == TableEnd(lines, type)
        head == [i \in 1..a |-> lines[i]]
        body == SelectSeq([i \in 1..(e - a - 2) |-> lines[a + 1 + i]],
                          LAMBDA l : l.k # "pn")
    IN IF a = 0 \/ a = Len(lines) THEN lines
       ELSE head \o <<TText>> \o body \o (IF e <= Len(lines) THEN <<TBlank>> ELSE <<>>)

RECURSIVE MergedPlainTables(_, _)
\* output_e after the first k transition logs, had they plain tables
MergedPlainTables(type, k) ==
    IF k = 0 THEN EmptyMap
    ELSE ParseTransit(PlainTable(content[transit_log_files[k]], type), type).out_e
         @@ MergedPlainTables(type, k - 1)

\* C24: the line after the announcement, the "pn=" lines of the table and
\* the lines after the first blank line of the table leave no trace: the
\* rows collected are those of the same logs with a line of text after the
\* announcement, no "pn=" line and nothing after the blank line.  A log
\* gives no more records than its table has rows between the line after
\* the announcement and the blank line.
C24_TablePhase ==
    pc = "transit" =>
        /\ output_e = MergedPlainTables(multipole_types[mt], fi - 1)
        /\ \A k \in 1..(fi - 1) :
              LET lines == content[transit_log_files[k]]
              IN Cardinality(DOMAIN ParseTransit(lines, multipole_types[mt]).out_e)
                    <= Cardinality(TableRows(lines, multipole_types[mt]))

\* a log was read that has a row in the place of the header line, a "pn="
\* line before the row of its table and a row after the blank line, and
\* the row of the table is the one collected
C24_Witness ==
    /\ pc = "transit"
    /\ fi = 2
    /\ LET lines == content[transit_log_files[1]]
           a == AnnouncedAt(lines, multipole_types[mt])
       IN /\ a > 0
          /\ Len(lines) = a + 5
          /\ lines[a + 1].k = "row"
          /\ lines[a + 2].k = "pn"
          /\ lines[a + 3].k = "row"
          /\ lines[a + 4].k = "blank"
          /\ lines[a + 5].k = "row"
          /\ \E key \in DOMAIN output_e :
                output_e[key].B1.B = lines[a + 3].B_excite
                /\ output_e[key].B2.B = lines[a + 3].B_decay
    /\ Cardinality(DOMAIN output_e) = 1

-----------------------------------------------------------------------------
(* C25 *)

\* the two states and the two strengths of a table row as they are to be
\* printed: spin, parity of the announcement, global index, excitation
\* energy; strength and its value in Weisskopf units
StateInitial(lines, type, i) ==
    LET prty == parity_integer_to_string(lines[AnnouncedAt(lines, type)].pi)
    IN [J |-> spin_to_string(lines[i].spin_initial), prty |-> prty,
        idx |-> n_jnp[<<lines[i].spin_initial, prty, lines[i].idx_2>>],
        Ex |-> Fmt3(Snap(lines[i].E_initial - E_gs))]

StateFinal(lines, type, i) ==
    LET prty == parity_integer_to_string(lines[AnnouncedAt(lines, type)].pf)
    IN [J |-> spin_to_string(lines[i].spin_final), prty |-> prty,
        idx |-> n_jnp[<<lines[i].spin_final, prty, lines[i].idx_1>>],
        Ex |-> Fmt3(Snap(lines[i].E_final - E_gs))]

Excitation(lines, type, i) ==
    [B |-> lines[i].B_excite, wu |-> <<lines[i].B_excite, HeaderUnit(lines, type)>>]

Decay(lines, type, i) ==
    [B |-> lines[i].B_decay, wu |-> <<lines[i].B_decay, HeaderUnit(lines, type)>>]

\* the row written is the table row i of the log in the orientation that
\* the sign of its gamma energy asks for
Oriented(out, lines, type, i) ==
    /\ EndpointKeys(lines, type, i) \subseteq DOMAIN n_jnp
    /\ IF lines[i].dE > 0
       THEN /\ out.first = StateInitial(lines, type, i)
            /\ out.second = StateFinal(lines, type, i)
            /\ out.dE = Fmt3(lines[i].dE)
            /\ out.B1 = Excitation(lines, type, i)
            /\ out.B2 = Decay(lines, type, i)
       ELSE /\ out.first = StateFinal(lines, type, i)
            /\ out.second = StateInitial(lines, type, i)
            /\ out.dE = Fmt3(-lines[i].dE)
            /\ out.B1 = Decay(lines, type, i)
            /\ out.B2 = Excitation(lines, type, i)

\* C25: every row collected is a table row of a log read, with the log's
\* initial state first, its gamma energy as read and the excitation
\* strengths before the decay strengths if the gamma energy is above 0,
\* and with the final state first, the gamma energy negated and the decay
\* strengths first otherwise; the states and the strengths are those
\* computed from the row in both cases.
C25_Orientation ==
    pc = "transit" =>
        \A key \in DOMAIN output_e :
            \E k \in 1..(fi - 1) :
                \E i \in TableRows(content[transit_log_files[k]], multipole_types[mt]) :
                    Oriented(output_e[key], content[transit_log_files[k]],
                             multipole_types[mt], i)

\* a row of negative gamma energy and unequal strengths was collected
C25_Witness ==
    /\ pc = "transit"
    /\ \E key \in DOMAIN output_e :
          \E k \in 1..(fi - 1) :
              LET lines == content[transit_log_files[k]]
              IN \E i \in TableRows(lines, multipole_types[mt]) :
                    /\ lines[i].dE < 0
                    /\ lines[i].B_decay # lines[i].B_excite
                    /\ Oriented(output_e[key], lines, multipole_types[mt], i)

-----------------------------------------------------------------------------
(* C26 *)

\* the run was aborted by the parser of the transition log at position fi,
\* a log that has no announcement of the multipole type asked for
AbortedWithoutAnnouncement ==
    /\ pc = "error"
    /\ io # <<>>
    /\ fi \in DOMAIN transit_log_files
    /\ io[Len(io)] = Event("open", WorkingDir, transit_log_files[fi])
    /\ transit_log_files[fi] \in DOMAIN content
    /\ AnnouncedAt(content[transit_log_files[fi]], multipole_types[mt]) = 0

\* C26: the parser of a transition log raises no error on a log that has
\* no announcement of the multipole type asked for.
C26_NoAnnouncementNoError == ~AbortedWithoutAnnouncement

-----------------------------------------------------------------------------
(* C27 *)

\* the log files of a sequence whose isotope token, the second field of
\* the name, is c when put in lower case
OfIsotope(l, c) == SelectSeq2(l, {f \in Range(l) : Lower(f[2]) = c})

\* C27: when logs of more than one isotope were found and one was chosen,
\* the logs kept are the logs found whose isotope token is that of one of
\* the isotopes found, all of them and no other.
C27_OnlyChosenIsotope ==
    (Discovered /\ Len(isotopes) > 1) =>
        \E c \in Range(isotopes) :
            /\ energy_log_files = OfIsotope(EnergyLogsOf(listing), c)
            /\ transit_log_files = OfIsotope(TransitLogsOf(listing), c)

-----------------------------------------------------------------------------
(* C28 *)

\* the two states of the table row i as the summary shows them, the one
\* written first before the other
Endpoints(lines, type, i) ==
    IF lines[i].dE > 0
    THEN <<StateInitial(lines, type, i), StateFinal(lines, type, i)>>
    ELSE <<StateFinal(lines, type, i), StateInitial(lines, type, i)>>

\* the transitions of the first k transition logs that no filter removes
Surviving(type, k) ==
    UNION {LET lines == content[transit_log_files[j]]
           IN {Endpoints(lines, type, i) :
                  i \in {r \in TableRows(lines, type) :
                            ~Filtered(lines[r], IsDiagLog(lines), HeaderUnit(lines, type))}} :
           j \in 1..k}

\* C28: while the transition logs are read for a multipole type, the rows
\* collected are as many as the distinct transitions (distinct in the spin,
\* parity, index or excitation energy of a state) that the logs read so far
\* hold and no filter removes: no two of them share a sort key.
C28_OneRowPerTransition ==
    pc = "transit" =>
        Cardinality(DOMAIN output_e)
            = Cardinality(Surviving(multipole_types[mt], fi - 1))

-----------------------------------------------------------------------------
(* C29 *)

\* C29: every row between states of the energy logs that the
\* self-transition filter removed from a log read for the multipole type
\* names one state at both ends: the same spin, the same parity and the
\* same eigenstate number.
C29_SelfFilterSameState ==
    pc = "transit" =>
        \A k \in 1..(fi - 1) :
            LET lines == content[transit_log_files[k]]
            IN \A i \in TableRows(lines, multipole_types[mt]) :
                  (/\ SelfFilter(lines[i])
                   /\ EndpointKeys(lines, multipole_types[mt], i) \subseteq DOMAIN n_jnp)
                      => Cardinality(EndpointKeys(lines, multipole_types[mt], i)) = 1

-----------------------------------------------------------------------------
(* C30 *)

RECURSIVE TableRead(_)
\* the table after the first k energy logs of the call, lines 557-558
TableRead(k) ==
    IF k = 0 THEN EmptyMap
    ELSE read_energy_logfile(energy_log_files[k], content[energy_log_files[k]],
                             TableRead(k - 1)).E

\* the eigenstate number that the log of the state at the key e gives it
LocalNumber(e) == TableRead(Len(energy_log_files))[e].n_eig

\* C30: once the indices are assigned, the index map holds for every state
\* of the table, at the state's spin, parity and eigenstate number in its
\* own log, the index that the table holds for that state.
C30_MapEntryIsOwnIndex ==
    energies # <<>> =>
        \A e \in DOMAIN E_data :
            n_jnp[<<E_data[e].spin, E_data[e].parity, LocalNumber(e)>>]
                = E_data[e].n_eig

=============================================================================
